---- MODULE Spec2Model ----
(***************************************************************************)
(* A model of stensonb/fileserver: the safepath.Clean path sanitizer, the  *)
(* request handlers (uploadFile and the three FileServer mounts) and the   *)
(* start-up / graceful-shutdown sequence of main.                          *)
(*                                                                         *)
(* Strings are sequences of symbols.  A symbol is the separator "/", the   *)
(* dot ".", or any other string, which stands for one rune (or one run of  *)
(* runes) that is neither a dot nor a separator: the code never tells two  *)
(* such runes apart.  The platform is Unix (filepath.Separator = '/').     *)
(***************************************************************************)
EXTENDS Integers, Sequences, FiniteSets, TLC

VARIABLES
    \* safepath.Clean
    input,          \* the argument of safepath.Clean
    result,         \* its return values [out, err], or NoResult before the call
    \* configuration built by init()/main() and the request handlers
    dataDir,        \* var dataDir
    uploadDir,      \* var uploadDir
    request,        \* the request handled, or NoRequest before it arrives
    response,       \* the lines uploadFile wrote to the http.ResponseWriter
    createArg,      \* the path the request passed to os.Create, or NoPath
    opened,         \* what the GET opened: [mount, fs, path], or NoOpen
    \* main and the signal goroutine
    env,            \* what the environment lets succeed (flags, filesystem, port)
    pcMain,         \* position of main
    pcSig,          \* position of the signal goroutine
    notified,       \* signal.Notify(sigint, os.Interrupt) has been called
    sigint,         \* number of signals buffered in the sigint channel (0 or 1)
    sigSent,        \* number of interrupts the environment has sent
    inShutdown,     \* srv.inShutdown
    listening,      \* the listener is open and accepting
    inflight,       \* accepted requests that have not finished
    accepted,       \* number of connections accepted so far
    elapsed,        \* time since timeoutCtx was created
    shutdownErr,    \* what srv.Shutdown returned, or NotReturned
    idleConnsClosed,\* the channel idleConnsClosed is closed
    history         \* facts about the run that the claims refer to

vars == << input, result, dataDir, uploadDir, request, response, createArg,
           opened, env, pcMain, pcSig, notified, sigint, sigSent,
           inShutdown, listening, inflight, accepted, elapsed, shutdownErr,
           idleConnsClosed, history >>

cleanVars == << input, result >>
serveVars == << dataDir, uploadDir, request, response, createArg, opened >>
mainVars  == << env, pcMain, pcSig, notified, sigint, sigSent, inShutdown,
                listening, inflight, accepted, elapsed, shutdownErr,
                idleConnsClosed, history >>

NoResult  == [out |-> <<>>, err |-> "pending"]
NotReturned == "pending"
NoPath    == << "<none>" >>
NoRequest == [kind |-> "none"]
NoOpen    == [mount |-> "none", fs |-> "none", path |-> NoPath]

Separator == "/"
dotRune   == "."

(***************************************************************************)
(* Bounds.                                                                 *)
(***************************************************************************)
MaxLen      == 6    \* longest input of safepath.Clean, in symbols
MaxSegs     == 4    \* most path segments of a GET request
MaxNameLen  == 4    \* longest upload file name, in symbols
MaxInflight == 2    \* most requests in flight at once
MaxAccepted == 3    \* most connections accepted in one run
MaxTimeout  == 2    \* longest shutdown timeout, in clock ticks
MaxSignals  == 2    \* most interrupts sent in one run

RECURSIVE SeqsUpTo(_, _)
SeqsUpTo(S, n) ==
    IF n = 0 THEN { <<>> }
    ELSE LET shorter == SeqsUpTo(S, n - 1)
         IN  shorter \cup { Append(s, c) : s \in { t \in shorter : Len(t) = n - 1 }, c \in S }

(***************************************************************************)
(* path/filepath (Unix), as safepath.Clean, uploadFile and http.Dir use it.*)
(***************************************************************************)
RECURSIVE backtrack(_, _, _)
\* for out.w > dotdot && out.index(out.w) != '/' { out.w-- }; yields out.w
\* (buf is 1-based here, so out.index(w) is buf[w + 1])
backtrack(buf, w, dotdot) ==
    IF w > dotdot /\ buf[w + 1] # Separator
    THEN backtrack(buf, w - 1, dotdot)
    ELSE w

RECURSIVE copyElem(_, _, _)
\* for ; r < n && path[r] != '/'; r++ { out.append(path[r]) }; yields <<r, out>>
copyElem(path, r, out) ==
    IF r <= Len(path) /\ path[r] # Separator
    THEN copyElem(path, r + 1, Append(out, path[r]))
    ELSE << r, out >>

RECURSIVE cleanLoop(_, _, _, _, _)
\* the loop of filepath.Clean: r is 1-based, out is the lazybuf's content
cleanLoop(path, r, out, dotdot, rooted) ==
    LET n == Len(path) IN
    IF r > n THEN out
    ELSE IF path[r] = Separator
         THEN cleanLoop(path, r + 1, out, dotdot, rooted)
    ELSE IF path[r] = dotRune /\ (r = n \/ path[r + 1] = Separator)
         THEN cleanLoop(path, r + 1, out, dotdot, rooted)
    ELSE IF path[r] = dotRune /\ path[r + 1] = dotRune
            /\ (r + 1 = n \/ path[r + 2] = Separator)
         THEN IF Len(out) > dotdot
              THEN cleanLoop(path, r + 2,
                             SubSeq(out, 1, backtrack(out, Len(out) - 1, dotdot)),
                             dotdot, rooted)
              ELSE IF ~rooted
              THEN LET o == (IF Len(out) > 0 THEN Append(out, Separator) ELSE out)
                            \o << dotRune, dotRune >>
                   IN  cleanLoop(path, r + 2, o, Len(o), rooted)
              ELSE cleanLoop(path, r + 2, out, dotdot, rooted)
    ELSE LET o  == IF (rooted /\ Len(out) # 1) \/ (~rooted /\ Len(out) # 0)
                   THEN Append(out, Separator) ELSE out
             rc == copyElem(path, r, o)
         IN  cleanLoop(path, rc[1], rc[2], dotdot, rooted)

\* filepath.Clean (and path.Clean: the same algorithm on Unix)
filepathClean(path) ==
    IF path = <<>> THEN << dotRune >>
    ELSE LET rooted == path[1] = Separator
             out    == IF rooted
                       THEN cleanLoop(path, 2, << Separator >>, 1, TRUE)
                       ELSE cleanLoop(path, 1, <<>>, 0, FALSE)
         IN  IF out = <<>> THEN << dotRune >> ELSE out

\* filepath.Join of two elements: empty elements are dropped, the rest joined
\* with the separator and cleaned
filepathJoin(a, b) ==
    IF a = <<>> /\ b = <<>> THEN <<>>
    ELSE IF a = <<>> THEN filepathClean(b)
    ELSE IF b = <<>> THEN filepathClean(a)
    ELSE filepathClean(a \o << Separator >> \o b)

\* the number of r in s
Count(s, r) == Cardinality({ i \in 1..Len(s) : s[i] = r })

\* filepath.Match("*", name): "*" matches any sequence of non-separator characters
filepathMatchStar(name) == Count(name, Separator) = 0

\* the elements of a cleaned path ("." is the path of no elements)
RECURSIVE splitFrom(_, _, _, _)
splitFrom(p, i, cur, acc) ==
    IF i > Len(p) THEN (IF cur = <<>> THEN acc ELSE Append(acc, cur))
    ELSE IF p[i] = Separator
         THEN splitFrom(p, i + 1, <<>>, IF cur = <<>> THEN acc ELSE Append(acc, cur))
         ELSE splitFrom(p, i + 1, Append(cur, p[i]), acc)

Elements(p) == IF p = << dotRune >> THEN <<>> ELSE splitFrom(p, 1, <<>>, <<>>)

IsRooted(p) == Len(p) > 0 /\ p[1] = Separator

\* p, lexically resolved, is root or lies below it: filepath.Rel(root, p) exists
\* and does not start with ".."
Inside(p, root) ==
    LET cp == filepathClean(p)
        cr == filepathClean(root)
        ep == Elements(cp)
        er == Elements(cr)
    IN  /\ IsRooted(cp) = IsRooted(cr)
        /\ Len(er) <= Len(ep)
        /\ SubSeq(ep, 1, Len(er)) = er
        /\ \A i \in (Len(er) + 1)..Len(ep) : ep[i] # << dotRune, dotRune >>

(***************************************************************************)
(* pkg/safepath                                                            *)
(***************************************************************************)
Runes == { "a", "*", dotRune, Separator }

Inputs == SeqsUpTo(Runes, MaxLen)

\* the directories a cleaned segment is joined to in the claims
Bases == { << Separator >>,
           << Separator, "d" >>,
           << Separator, "d", Separator, "u" >>,
           << "d" >>,
           << dotRune >>,
           << dotRune, dotRune >> }

TooManyDotsLax(dotCount) == dotCount > 2

TooManyDotsStrict(dotCount) == dotCount > 0

\* if dotCount > 1
TooManyDots(dotCount) == dotCount > 1

TooManyFileSeparatorsLax(fsCount) == fsCount > 1

\* if fsCount > 0
TooManyFileSeparators(fsCount) == fsCount > 0

\* the checks of Clean with the separator check moved before the dot check
CleanSeparatorsFirst(in) ==
    LET cleaned  == filepathClean(in)
        dotCount == Count(cleaned, dotRune)
        fsCount  == Count(cleaned, Separator)
    IN  IF TooManyFileSeparators(fsCount)
        THEN [out |-> <<>>, err |-> "TooManyFileSeparatorsErr"]
        ELSE IF TooManyDots(dotCount)
        THEN [out |-> <<>>, err |-> "TooManyDotsErr"]
        ELSE IF ~filepathMatchStar(cleaned)
        THEN [out |-> <<>>, err |-> "BadCharactersFoundErr"]
        ELSE [out |-> cleaned, err |-> "nil"]

\* func Clean(input string) (string, error)
Clean(in) ==
    LET cleaned  == filepathClean(in)
        dotCount == Count(cleaned, dotRune)
        fsCount  == Count(cleaned, Separator)
    IN  IF TooManyDots(dotCount)
        THEN [out |-> <<>>, err |-> "TooManyDotsErr"]
        ELSE IF TooManyFileSeparators(fsCount)
        THEN [out |-> <<>>, err |-> "TooManyFileSeparatorsErr"]
        ELSE IF ~filepathMatchStar(cleaned)
        THEN [out |-> <<>>, err |-> "BadCharactersFoundErr"]
        ELSE [out |-> cleaned, err |-> "nil"]

\* a caller passes some string to Clean
CallClean ==
    /\ result = NoResult
    /\ result' = Clean(input)
    /\ UNCHANGED << input, serveVars, mainVars >>

\* the values the variables of the other parts hold while one part runs
ServeIdle ==
    /\ dataDir = NoPath /\ uploadDir = NoPath
    /\ request = NoRequest /\ response = <<>> /\ createArg = NoPath
    /\ opened = NoOpen

MainIdle ==
    /\ env = [none |-> TRUE]
    /\ pcMain = "idle" /\ pcSig = "idle"
    /\ notified = FALSE /\ sigint = 0 /\ sigSent = 0
    /\ inShutdown = FALSE /\ listening = FALSE
    /\ inflight = 0 /\ accepted = 0 /\ elapsed = 0
    /\ shutdownErr = NotReturned /\ idleConnsClosed = FALSE
    /\ history = [none |-> TRUE]

CleanIdle == input = <<>> /\ result = NoResult

InitClean ==
    /\ input \in Inputs
    /\ result = NoResult
    /\ ServeIdle
    /\ MainIdle

NextClean == CallClean

SpecClean == InitClean /\ [][NextClean]_vars

Returned == result # NoResult

\* C2 as claimed: every input that contains a separator fails with
\* TooManyFileSeparatorsErr and the empty string.
C2_AnySeparatorRejected ==
    (Returned /\ Count(input, Separator) > 0)
        => result = [out |-> <<>>, err |-> "TooManyFileSeparatorsErr"]

\* C2 (amended): every input whose lexically normalised form (filepath.Clean)
\* contains at least one separator and at most one dot fails with
\* TooManyFileSeparatorsErr and the empty string.
C2_NormalisedSeparatorRejected ==
    (Returned /\ Count(filepathClean(input), Separator) > 0
              /\ Count(filepathClean(input), dotRune) <= 1)
        => result = [out |-> <<>>, err |-> "TooManyFileSeparatorsErr"]

C2_Witness ==
    /\ Returned
    /\ input = << "a", Separator, "a" >>
    /\ result.err = "TooManyFileSeparatorsErr"

\* C3 as claimed: every input that contains two or more dots fails with
\* TooManyDotsErr and the empty string.
C3_AnyTwoDotsRejected ==
    (Returned /\ Count(input, dotRune) >= 2)
        => result = [out |-> <<>>, err |-> "TooManyDotsErr"]

\* C3 (amended): every input whose lexically normalised form (filepath.Clean)
\* contains two or more dots fails with TooManyDotsErr and the empty string,
\* whether or not it also contains separators.
C3_NormalisedTwoDotsRejected ==
    (Returned /\ Count(filepathClean(input), dotRune) >= 2)
        => result = [out |-> <<>>, err |-> "TooManyDotsErr"]

C3_Witness ==
    /\ Returned
    /\ input = << dotRune, dotRune, Separator, "a" >>
    /\ result.err = "TooManyDotsErr"

\* C4 as claimed: every input with at most one dot and no separator, the empty
\* string included, is returned unchanged with a nil error.
C4_ReturnedUnchanged ==
    (Returned /\ Count(input, dotRune) <= 1 /\ Count(input, Separator) = 0)
        => result = [out |-> input, err |-> "nil"]

\* C4 (amended): every non-empty input with at most one dot and no separator is
\* returned unchanged with a nil error; the empty string succeeds too, and is
\* returned as ".".
C4_NonEmptyReturnedUnchanged ==
    (Returned /\ Count(input, dotRune) <= 1 /\ Count(input, Separator) = 0)
        => /\ result.err = "nil"
           /\ input # <<>> => result.out = input
           /\ input = <<>> => result.out = << dotRune >>

C4_Witness ==
    /\ Returned
    /\ input = << "a", dotRune, "*" >>
    /\ result = [out |-> input, err |-> "nil"]

\* C5: whenever Clean succeeds, its output has no separator and at most one
\* dot, and joined to a base directory it resolves to the base or below it.
C5_OutputStaysInsideBase ==
    (Returned /\ result.err = "nil")
        => /\ Count(result.out, Separator) = 0
           /\ Count(result.out, dotRune) <= 1
           /\ \A base \in Bases : Inside(filepathJoin(base, result.out), base)

C5_Witness ==
    /\ Returned
    /\ result.err = "nil"
    /\ result.out = << "a", dotRune, "a" >>
    /\ filepathJoin(<< Separator, "d" >>, result.out)
         = << Separator, "d", Separator, "a", dotRune, "a" >>

(***************************************************************************)
(* The configuration: init() and the first lines of main.                  *)
(***************************************************************************)
\* baseDir, err := os.Getwd()
baseDir == << Separator, "w" >>

Unset == << "<unset>" >>

\* values of the -dataDir and -uploadDir flags
DataDirFlags   == { Unset, << Separator, "srv" >>,
                    << Separator, "w", Separator, "data", Separator >> }
UploadDirFlags == { Unset, << Separator, "up" >>,
                    << Separator, "w", Separator, "data" >>,
                    << Separator, "w" >> }

\* dataDir = filepath.Join(baseDir, "data"), unless -dataDir is given
initDataDir(flag) ==
    IF flag = Unset THEN filepathJoin(baseDir, << "data" >>) ELSE flag

\* uploadDir = filepath.Join(dataDir, "uploads"), with the default dataDir,
\* unless -uploadDir is given
initUploadDir(flag) ==
    IF flag = Unset
    THEN filepathJoin(filepathJoin(baseDir, << "data" >>), << "uploads" >>)
    ELSE flag

Configured(dflag, uflag) ==
    /\ dataDir = filepathClean(initDataDir(dflag))
    /\ uploadDir = filepathClean(initUploadDir(uflag))

(***************************************************************************)
(* POST /uploadFile                                                        *)
(***************************************************************************)
SuccessLine == "Successfully Uploaded Original File"

NameRunes == { "a", dotRune, Separator }

\* handler.Filename: whatever the multipart header carries
Filenames == SeqsUpTo(NameRunes, MaxNameLen) \ { <<>> }

RECURSIVE Ancestors(_)
\* a cleaned absolute directory and the directories above it
Ancestors(dir) ==
    IF dir = << Separator >> THEN { dir }
    ELSE { dir } \cup Ancestors(filepathJoin(dir, << dotRune, dotRune >>))

\* paths that are directories once main has run MkdirAll: os.Create fails on them
KnownDirs == Ancestors(dataDir) \cup Ancestors(uploadDir)

\* fileToCreate := filepath.Clean(filepath.Join(uploadDir, handler.Filename))
fileToCreate(filename) == filepathClean(filepathJoin(uploadDir, filename))

\* func uploadFile(w http.ResponseWriter, r *http.Request)
\*   parseErr: r.ParseMultipartForm returned an error
\*   hasFile:  r.FormFile("originalFile") found the field
\*   createOK: os.Create succeeded
uploadFile(parseErr, hasFile, filename, createOK) ==
    LET afterParse == IF parseErr THEN << "error: ParseMultipartForm" >> ELSE <<>>
    IN  /\ request' = [kind |-> "upload", parseErr |-> parseErr, hasFile |-> hasFile,
                       filename |-> filename, createOK |-> createOK]
        /\ opened' = NoOpen
        /\ IF ~hasFile
           THEN \* log.Println(err); return
                /\ response' = afterParse
                /\ createArg' = NoPath
           ELSE /\ createArg' = fileToCreate(filename)
                /\ response' = IF createOK
                               THEN Append(afterParse, SuccessLine)
                               ELSE Append(afterParse, "error: os.Create")
        /\ UNCHANGED << dataDir, uploadDir, cleanVars, mainVars >>

\* r.Post("/uploadFile", uploadFile): one upload arrives.  Without the file
\* field there is no file name and os.Create is not called, so one value stands
\* for both; os.Create cannot succeed on a directory.
Upload ==
    /\ request = NoRequest
    /\ \E parseErr \in BOOLEAN, hasFile \in BOOLEAN, filename \in Filenames,
          createOK \in BOOLEAN :
        /\ hasFile \/ (filename = << "a" >> /\ ~createOK)
        /\ createOK => fileToCreate(filename) \notin KnownDirs
        /\ uploadFile(parseErr, hasFile, filename, createOK)

(***************************************************************************)
(* GET under the mounts of FileServer(r, path, root)                       *)
(***************************************************************************)
Segments == { <<>>, << dotRune >>, << dotRune, dotRune >>,
              << "data" >>, << "uploads" >>, << "a" >> }

RECURSIVE joinSegments(_)
joinSegments(segs) ==
    IF segs = <<>> THEN <<>>
    ELSE << Separator >> \o Head(segs) \o joinSegments(Tail(segs))

\* request paths: "/" followed by up to MaxSegs segments, each after a "/"
URLs == { joinSegments(segs) : segs \in SeqsUpTo(Segments, MaxSegs) \ { <<>> } }

HasPrefix(s, prefix) ==
    Len(s) >= Len(prefix) /\ SubSeq(s, 1, Len(prefix)) = prefix

TrimPrefix(s, prefix) ==
    IF HasPrefix(s, prefix) THEN SubSeq(s, Len(prefix) + 1, Len(s)) ELSE s

Mounts == { "/", "/data", "/uploads" }

MountPath(mount) ==
    CASE mount = "/"        -> << Separator >>
      [] mount = "/data"    -> << Separator, "data" >>
      [] mount = "/uploads" -> << Separator, "uploads" >>

MountRootSwapped(mount) ==
    CASE mount = "/"        -> [fs |-> "embed", dir |-> << "html" >>]
      [] mount = "/data"    -> [fs |-> "disk", dir |-> uploadDir]
      [] mount = "/uploads" -> [fs |-> "disk", dir |-> dataDir]

\* FileServer(r, "/", http.FS(fsys)); FileServer(r, "/data", http.Dir(dataDir));
\* FileServer(r, "/uploads", http.Dir(uploadDir))
MountRoot(mount) ==
    CASE mount = "/"        -> [fs |-> "embed", dir |-> << "html" >>]
      [] mount = "/data"    -> [fs |-> "disk", dir |-> dataDir]
      [] mount = "/uploads" -> [fs |-> "disk", dir |-> uploadDir]

\* the router: r.Get(path, redirect) for "/data" and "/uploads", r.Get(path + "/*")
\* for each mount; the longest static prefix wins
Route(url) ==
    IF url \in { MountPath("/data"), MountPath("/uploads") }
    THEN [kind |-> "redirect", mount |-> "none"]
    ELSE IF HasPrefix(url, Append(MountPath("/data"), Separator))
    THEN [kind |-> "mount", mount |-> "/data"]
    ELSE IF HasPrefix(url, Append(MountPath("/uploads"), Separator))
    THEN [kind |-> "mount", mount |-> "/uploads"]
    ELSE [kind |-> "mount", mount |-> "/"]

\* pathPrefix := strings.TrimSuffix(rctx.RoutePattern(), "/*")
pathPrefix(mount) == IF mount = "/" THEN <<>> ELSE MountPath(mount)

\* http.StripPrefix(pathPrefix, ...): the path the file server sees
StripPrefix(prefix, url) == TrimPrefix(url, prefix)

\* http.FileServer: the name it opens is path.Clean of the path with a leading "/"
serveName(upath) ==
    filepathClean(IF HasPrefix(upath, << Separator >>) THEN upath
                  ELSE << Separator >> \o upath)

\* http.Dir.Open: filepath.Join(dir, path.Clean("/" + name));
\* http.FS(fsys).Open: the name without its leading "/", "." for the root
rootOpen(root, name) ==
    IF root.fs = "disk"
    THEN filepathJoin(root.dir, filepathClean(<< Separator >> \o name))
    ELSE IF name = << Separator >> THEN << dotRune >>
    ELSE TrimPrefix(name, << Separator >>)

\* the handler FileServer registers for path + "*"; index: the name is a directory
\* and its index.html is served
Get(url, index) ==
    LET route == Route(url)
        root  == MountRoot(route.mount)
        name  == serveName(StripPrefix(pathPrefix(route.mount), url))
        file  == rootOpen(root, name)
    IN  /\ request' = [kind |-> "get", url |-> url, index |-> index]
        /\ response' = <<>>
        /\ createArg' = NoPath
        /\ opened' = IF route.kind = "redirect" THEN NoOpen
                     ELSE [mount |-> route.mount, fs |-> root.fs,
                           path |-> IF index
                                    THEN filepathJoin(file, << "index", dotRune, "html" >>)
                                    ELSE file]
        /\ UNCHANGED << dataDir, uploadDir, cleanVars, mainVars >>

\* one GET arrives
GetFile ==
    /\ request = NoRequest
    /\ \E url \in URLs, index \in BOOLEAN : Get(url, index)

InitServe ==
    /\ \E dflag \in DataDirFlags, uflag \in UploadDirFlags : Configured(dflag, uflag)
    /\ request = NoRequest /\ response = <<>> /\ createArg = NoPath
    /\ opened = NoOpen
    /\ CleanIdle
    /\ MainIdle

NextServe == Upload \/ GetFile

SpecServe == InitServe /\ [][NextServe]_vars

(***************************************************************************)
(* main: start-up, the signal goroutine, and the drain of srv.Shutdown.    *)
(* The process is gone once main returned ("done"), log.Fatal ran          *)
(* ("fatal") or an interrupt met its default disposition ("killed").       *)
(***************************************************************************)
\* the -timeout flag: a string time.ParseDuration rejects, or a duration d in ticks
Malformed == [parses |-> FALSE, d |-> 0]

TimeoutFlags == { Malformed } \cup { [parses |-> TRUE, d |-> t] : t \in 0..MaxTimeout }

Exited == pcMain \in { "done", "fatal", "killed" }

Alive == ~Exited

NoHistory == [startupFailed |-> FALSE, listened |-> FALSE, drainStart |-> -1]

InitMain ==
    /\ env \in [shutdownTimeout : TimeoutFlags, listenOK : BOOLEAN]
    /\ pcMain = "mkdirData" /\ pcSig = "unstarted"
    /\ notified = FALSE /\ sigint = 0 /\ sigSent = 0
    /\ inShutdown = FALSE /\ listening = FALSE
    /\ inflight = 0 /\ accepted = 0 /\ elapsed = 0
    /\ shutdownErr = NotReturned /\ idleConnsClosed = FALSE
    /\ history = NoHistory
    /\ CleanIdle
    /\ ServeIdle

mainRest == << env, pcSig, notified, sigint, sigSent, inShutdown, listening,
               inflight, accepted, elapsed, shutdownErr, idleConnsClosed >>

\* err = os.MkdirAll(dataDir, 0700); if err != nil { log.Println(err) }
MkdirData ==
    /\ pcMain = "mkdirData"
    /\ \E ok \in BOOLEAN :
         history' = [history EXCEPT !.startupFailed = @ \/ ~ok]
    /\ pcMain' = "mkdirUpload"
    /\ UNCHANGED << mainRest, cleanVars, serveVars >>

\* err = os.MkdirAll(uploadDir, 0700); if err != nil { log.Println(err) }
MkdirUpload ==
    /\ pcMain = "mkdirUpload"
    /\ \E ok \in BOOLEAN :
         history' = [history EXCEPT !.startupFailed = @ \/ ~ok]
    /\ pcMain' = "parseDuration"
    /\ UNCHANGED << mainRest, cleanVars, serveVars >>

\* parsedShutdownTimeout, err := time.ParseDuration(shutdownTimeout);
\* if err != nil { log.Fatal(err) }
ParseDuration ==
    /\ pcMain = "parseDuration"
    /\ IF ~env.shutdownTimeout.parses
       THEN /\ pcMain' = "fatal"
            /\ history' = [history EXCEPT !.startupFailed = TRUE]
       ELSE /\ pcMain' = "tlsConfig"
            /\ UNCHANGED history
    /\ UNCHANGED << mainRest, cleanVars, serveVars >>

\* if tlsEnabled { if tlsSelfSigned { tlsConfig, err = tlsConfigSelfSigned();
\* if err != nil { log.Fatal(err) } } }
TlsConfig ==
    /\ pcMain = "tlsConfig"
    /\ \E tlsEnabled \in BOOLEAN, tlsSelfSigned \in BOOLEAN, generated \in BOOLEAN :
         IF tlsEnabled /\ tlsSelfSigned /\ ~generated
         THEN /\ pcMain' = "fatal"
              /\ history' = [history EXCEPT !.startupFailed = TRUE]
         ELSE /\ pcMain' = "goSignal"
              /\ UNCHANGED history
    /\ UNCHANGED << mainRest, cleanVars, serveVars >>

\* idleConnsClosed := make(chan struct{}); go func() { ... }(); then the router
\* and the mounts are set up
GoSignal ==
    /\ pcMain = "goSignal"
    /\ pcMain' = "listenAndServe"
    /\ pcSig' = "notify"
    /\ UNCHANGED << env, notified, sigint, sigSent, inShutdown, listening, inflight,
                    accepted, elapsed, shutdownErr, idleConnsClosed, history,
                    cleanVars, serveVars >>

\* srv.ListenAndServe / ListenAndServeTLS, on entry: a server that is shutting
\* down returns http.ErrServerClosed at once
ListenAndServeEnter ==
    /\ pcMain = "listenAndServe"
    /\ pcMain' = IF inShutdown THEN "waitIdle" ELSE "listen"
    /\ UNCHANGED << mainRest, history, cleanVars, serveVars >>

\* net.Listen (and, for ListenAndServeTLS with files, loading the key pair):
\* any error but ErrServerClosed is fatal
Listen ==
    /\ pcMain = "listen"
    /\ pcMain' = IF env.listenOK THEN "serve" ELSE "fatal"
    /\ UNCHANGED << mainRest, history, cleanVars, serveVars >>

\* srv.Serve: the listener is tracked unless the server is shutting down
Serve ==
    /\ pcMain = "serve"
    /\ IF inShutdown
       THEN /\ pcMain' = "waitIdle"
            /\ UNCHANGED << listening, history >>
       ELSE /\ pcMain' = "serving"
            /\ listening' = TRUE
            /\ history' = [history EXCEPT !.listened = TRUE]
    /\ UNCHANGED << env, pcSig, notified, sigint, sigSent, inShutdown, inflight,
                    accepted, elapsed, shutdownErr, idleConnsClosed,
                    cleanVars, serveVars >>

\* the accept loop of srv.Serve takes a connection; its request is in flight
Accept ==
    /\ pcMain = "serving" /\ listening
    /\ inflight < MaxInflight /\ accepted < MaxAccepted
    /\ inflight' = inflight + 1
    /\ accepted' = accepted + 1
    /\ UNCHANGED << env, pcMain, pcSig, notified, sigint, sigSent, inShutdown,
                    listening, elapsed, shutdownErr, idleConnsClosed, history,
                    cleanVars, serveVars >>

\* a request in flight finishes and its connection becomes idle
Finish ==
    /\ Alive
    /\ inflight > 0
    /\ inflight' = inflight - 1
    /\ UNCHANGED << env, pcMain, pcSig, notified, sigint, sigSent, inShutdown,
                    listening, accepted, elapsed, shutdownErr, idleConnsClosed,
                    history, cleanVars, serveVars >>

\* srv.Serve returns http.ErrServerClosed once Shutdown closed the listener
ServeReturns ==
    /\ pcMain = "serving"
    /\ inShutdown
    /\ pcMain' = "waitIdle"
    /\ UNCHANGED << mainRest, history, cleanVars, serveVars >>

\* <-idleConnsClosed; log.Println("Done."); main returns
WaitIdle ==
    /\ pcMain = "waitIdle"
    /\ idleConnsClosed
    /\ pcMain' = "done"
    /\ UNCHANGED << mainRest, history, cleanVars, serveVars >>

sigRest == << env, pcMain, sigSent, listening, inflight, accepted, history >>

\* sigint := make(chan os.Signal, 1); signal.Notify(sigint, os.Interrupt)
Notify ==
    /\ Alive
    /\ pcSig = "notify"
    /\ notified' = TRUE
    /\ pcSig' = "recv"
    /\ UNCHANGED << sigRest, sigint, inShutdown, elapsed, shutdownErr,
                    idleConnsClosed, cleanVars, serveVars >>

\* <-sigint; log.Println("Exiting nicely.  Interrupt again to force.")
Receive ==
    /\ Alive
    /\ pcSig = "recv"
    /\ sigint > 0
    /\ sigint' = sigint - 1
    /\ pcSig' = "shutdown"
    /\ UNCHANGED << sigRest, notified, inShutdown, elapsed, shutdownErr,
                    idleConnsClosed, cleanVars, serveVars >>

\* timeoutCtx, cancel := context.WithTimeout(context.Background(),
\* parsedShutdownTimeout); srv.Shutdown(timeoutCtx) sets inShutdown and closes
\* the listeners
ShutdownBegin ==
    /\ Alive
    /\ pcSig = "shutdown"
    /\ elapsed' = 0
    /\ inShutdown' = TRUE
    /\ listening' = FALSE
    /\ history' = [history EXCEPT !.drainStart = inflight]
    /\ pcSig' = "closeIdleConns"
    /\ UNCHANGED << env, pcMain, sigSent, inflight, accepted, notified, sigint,
                    shutdownErr, idleConnsClosed, cleanVars, serveVars >>

\* time passes while timeoutCtx is live
Tick ==
    /\ Alive
    /\ pcSig \in { "closeIdleConns", "select" }
    /\ elapsed < env.shutdownTimeout.d
    /\ elapsed' = elapsed + 1
    /\ UNCHANGED << sigRest, pcSig, notified, sigint, inShutdown, shutdownErr,
                    idleConnsClosed, cleanVars, serveVars >>

ctxNeverDone == FALSE

\* timeoutCtx.Done() is ready: the timeout has run out
ctxDone == elapsed >= env.shutdownTimeout.d

\* Shutdown's loop: if srv.closeIdleConns() { return nil }
ShutdownIdle ==
    /\ Alive
    /\ pcSig = "closeIdleConns"
    /\ IF inflight = 0
       THEN /\ shutdownErr' = "nil"
            /\ pcSig' = "close"
       ELSE /\ pcSig' = "select"
            /\ UNCHANGED shutdownErr
    /\ UNCHANGED << sigRest, notified, sigint, inShutdown, elapsed,
                    idleConnsClosed, cleanVars, serveVars >>

\* Shutdown's loop: case <-ctx.Done(): return ctx.Err();
\* log.Printf("HTTP server Shutdown: %v", err)
ShutdownDeadline ==
    /\ Alive
    /\ pcSig = "select"
    /\ ctxDone
    /\ shutdownErr' = "DeadlineExceeded"
    /\ pcSig' = "close"
    /\ UNCHANGED << sigRest, notified, sigint, inShutdown, elapsed,
                    idleConnsClosed, cleanVars, serveVars >>

\* Shutdown's loop: case <-timer.C: poll again
ShutdownPoll ==
    /\ Alive
    /\ pcSig = "select"
    /\ pcSig' = "closeIdleConns"
    /\ UNCHANGED << sigRest, notified, sigint, inShutdown, elapsed, shutdownErr,
                    idleConnsClosed, cleanVars, serveVars >>

\* close(idleConnsClosed); the goroutine ends
CloseIdleConnsClosed ==
    /\ Alive
    /\ pcSig = "close"
    /\ idleConnsClosed' = TRUE
    /\ pcSig' = "end"
    /\ UNCHANGED << sigRest, notified, sigint, inShutdown, elapsed, shutdownErr,
                    cleanVars, serveVars >>

\* the environment sends os.Interrupt to the process.  Before signal.Notify the
\* default disposition ends the process; after it the signal is queued in
\* sigint, or dropped when the channel (capacity 1) is full
Interrupt ==
    /\ Alive
    /\ sigSent < MaxSignals
    /\ sigSent' = sigSent + 1
    /\ IF ~notified
       THEN /\ pcMain' = "killed"
            /\ UNCHANGED sigint
       ELSE /\ sigint' = IF sigint = 0 THEN 1 ELSE sigint
            /\ UNCHANGED pcMain
    /\ UNCHANGED << env, pcSig, notified, inShutdown, listening, inflight, accepted,
                    elapsed, shutdownErr, idleConnsClosed, history,
                    cleanVars, serveVars >>

MainStep ==
    \/ MkdirData \/ MkdirUpload \/ ParseDuration \/ TlsConfig \/ GoSignal
    \/ ListenAndServeEnter \/ Listen \/ Serve \/ ServeReturns \/ WaitIdle

SigStep ==
    \/ Notify \/ Receive \/ ShutdownBegin \/ ShutdownIdle \/ ShutdownPoll
    \/ CloseIdleConnsClosed

NextMain ==
    \/ MainStep
    \/ SigStep
    \/ ShutdownDeadline
    \/ Tick
    \/ Accept
    \/ Finish
    \/ Interrupt

\* The Go scheduler runs every runnable goroutine, time passes, and a select
\* whose ctx.Done() case is ready again and again takes it in the end.  Nothing
\* obliges the environment to send interrupts, nor requests to arrive or finish.
SpecMain ==
    /\ InitMain
    /\ [][NextMain]_vars
    /\ WF_vars(MainStep)
    /\ WF_vars(SigStep)
    /\ WF_vars(Tick)
    /\ SF_vars(ShutdownDeadline)

\* a ".." element or a separator in a file name
Traversal(filename) ==
    \/ Count(filename, Separator) > 0
    \/ filename = << dotRune, dotRune >>

Uploaded == request.kind = "upload"

\* C1: an upload whose file name contains a traversal sequence is rejected
\* before any file is created: os.Create is never reached for it.
C1_TraversalNeverReachesCreate ==
    (Uploaded /\ request.hasFile /\ Traversal(request.filename))
        => createArg = NoPath

\* the upload failed: the form did not parse, the field is missing, or the file
\* could not be created
UploadFailed ==
    /\ Uploaded
    /\ request.parseErr \/ ~request.hasFile \/ ~request.createOK

HasErrorLine == \E i \in 1..Len(response) : response[i] # SuccessLine

HasSuccessLine == \E i \in 1..Len(response) : response[i] = SuccessLine

\* C10: every failed upload is reported to the caller as an error line; its
\* response is never empty and never carries the success line.
C10_FailureReportedToCaller ==
    UploadFailed => (response # <<>> /\ HasErrorLine /\ ~HasSuccessLine)

Served == request.kind = "get" /\ opened # NoOpen

OtherMounts(mount) == Mounts \ { mount }

\* the root each mount is meant to serve: the embedded assets under "/", the
\* data directory under "/data", the uploads directory under "/uploads"
OnDisk(m) == m # "/"

DirOf(m) == IF m = "/data" THEN dataDir ELSE uploadDir

\* the file opened lies inside the root of mount m
InsideMount(m) ==
    /\ OnDisk(m) = (opened.fs = "disk")
    /\ OnDisk(m) => Inside(opened.path, DirOf(m))

Nested(m1, m2) ==
    /\ OnDisk(m1) /\ OnDisk(m2)
    /\ Inside(DirOf(m1), DirOf(m2)) \/ Inside(DirOf(m2), DirOf(m1))

\* C8 as claimed: the file a GET returns under one mount is never read from
\* inside another mount's root, in every configuration main can build.
C8_NeverInsideAnotherRoot ==
    Served => \A m \in OtherMounts(opened.mount) : ~InsideMount(m)

\* C8 (amended): the file a GET returns under a mount is read from inside that
\* mount's own root (the embedded assets for "/"), and from inside another
\* mount's root only when the two roots are the same directory or one lies
\* inside the other, as the uploads directory lies inside the data directory
\* by default.
C8_InsideOwnRoot ==
    Served => /\ InsideMount(opened.mount)
              /\ \A m \in OtherMounts(opened.mount) :
                    InsideMount(m) => Nested(m, opened.mount)

C8_Witness ==
    /\ Served
    /\ dataDir = << Separator, "srv" >>
    /\ uploadDir = << Separator, "up" >>
    /\ request.url = << Separator, "data", Separator, dotRune, dotRune,
                        Separator, "uploads", Separator, "a" >>
    /\ opened = [mount |-> "/data", fs |-> "disk",
                 path |-> << Separator, "srv", Separator, "uploads", Separator, "a" >>]

\* the signal goroutine has taken the interrupt from sigint
Handled == pcSig \in { "shutdown", "closeIdleConns", "select", "close", "end" }

ShutdownReturned == shutdownErr # NotReturned

\* C6 as claimed: an interrupt sent once the signal goroutine exists, to a
\* server whose listener can be opened, ends in Draining and then "Done.",
\* with Shutdown returning in time when nothing was in flight, whatever the
\* interleaving: a process that has exited has drained and reached "Done.".
C6_EveryInterruptDrains ==
    (sigSent > 0 /\ pcSig # "unstarted" /\ env.listenOK /\ Exited)
        => /\ pcMain = "done"
           /\ inShutdown
           /\ history.drainStart = 0 => shutdownErr = "nil"

\* The part of C6 that does hold: an interrupt that the signal goroutine takes
\* from sigint (one that arrived after signal.Notify ran) moves the coordinator
\* to Draining; main then reaches "Done." in every interleaving, also when the
\* interrupt is handled before ListenAndServe is called, provided the listener
\* can be opened; and when no request is in flight as Shutdown starts, Shutdown
\* returns nil, not the timeout's error.
C6_HandledInterruptDrains ==
    /\ (Handled /\ env.listenOK) ~> (pcMain = "done" /\ inShutdown)
    /\ [](Handled => <>(inShutdown \/ Exited))
    /\ []((ShutdownReturned /\ history.drainStart = 0) => shutdownErr = "nil")

\* C7: once Draining has begun no connection is accepted; the process ends
\* even if a request in flight never finishes; and a request is cut off only
\* when the drain timeout has run out.
C7_DrainIsBounded ==
    /\ [][inShutdown => accepted' = accepted]_vars
    /\ inShutdown ~> Exited
    /\ []((pcMain = "done" /\ inflight > 0)
             => (elapsed = env.shutdownTimeout.d /\ shutdownErr = "DeadlineExceeded"))

C7_Witness ==
    /\ pcMain = "done"
    /\ inflight > 0
    /\ accepted > 0
    /\ shutdownErr = "DeadlineExceeded"
    /\ elapsed = env.shutdownTimeout.d

\* C9: after a failure to create the data or uploads directory, to generate
\* the certificate or to parse the timeout, the server never listens and never
\* accepts a connection.
C9_StartupFailureIsFatal ==
    history.startupFailed => (~listening /\ ~history.listened /\ accepted = 0)
====
